---- MODULE Spec2Model ----
(***************************************************************************)
(* Model of the x402 minimal Aptos facilitator (src/facilitator.js): the   *)
(* /verify and /settle route handlers, verifyPayment, settlePayment and    *)
(* deserializeAptosPayment, with the ledger client (simulate, submit,      *)
(* waitForTransaction) and the fee-payer signer as nondeterministic        *)
(* collaborators.                                                          *)
(*                                                                         *)
(* Strings are sequences of chunks: '' is << >>, a template literal        *)
(* `a: ${b}` is <<"a: ">> \o b.  Addresses are natural numbers; their      *)
(* string forms are computed by toString / toStringLong below.             *)
(***************************************************************************)
EXTENDS Integers, Sequences, FiniteSets, TLC

\* --------------------------------------------------------------------------
\* Bounds of the model
\* --------------------------------------------------------------------------

\* number of request slots (HTTP requests that may be in flight)
NumCalls == 2
\* a request differs from the well-formed baseline request in at most this
\* many fields
MaxDeviations == 2

Calls == 1..NumCalls

\* --------------------------------------------------------------------------
\* Strings, addresses and numbers
\* --------------------------------------------------------------------------

EmptyString == << >>

HexDigits == <<"0", "1", "2", "3", "4", "5", "6", "7", "8", "9", "a", "b", "c", "d", "e", "f">>

RECURSIVE Hex(_)
Hex(n) == IF n < 16 THEN <<HexDigits[n + 1]>>
          ELSE Hex(n \div 16) \o <<HexDigits[(n % 16) + 1]>>

\* AccountAddress.isSpecial: the addresses 0x0 .. 0xf
isSpecial(a) == a < 16

\* AccountAddress.toStringLong: 0x, the zero padding to 64 digits, the digits
toStringLong(a) == <<"0x", "<zero padding>">> \o Hex(a)

\* AccountAddress.toString: special addresses print in short form
toString(a) == IF isSpecial(a) THEN <<"0x">> \o Hex(a) ELSE toStringLong(a)

\* BigInt.prototype.toString(10): canonical base-10 digits, no leading zero
RECURSIVE toString10(_)
toString10(n) == IF n < 10 THEN <<HexDigits[n + 1]>>
                 ELSE toString10(n \div 10) \o <<HexDigits[(n % 10) + 1]>>

\* the number a string of decimal digits denotes (leading zeros allowed)
RECURSIVE parseInt10(_)
parseInt10(ds) == IF Len(ds) = 0 THEN 0
                  ELSE 10 * parseInt10(SubSeq(ds, 1, Len(ds) - 1))
                       + (CHOOSE k \in 0..9 : HexDigits[k + 1] = ds[Len(ds)])

RECURSIVE HexValue(_)
HexValue(ds) == IF Len(ds) = 0 THEN 0
                ELSE 16 * HexValue(SubSeq(ds, 1, Len(ds) - 1))
                     + (CHOOSE k \in 0..15 : HexDigits[k + 1] = ds[Len(ds)])

IsHexString(ds) == \A i \in 1..Len(ds) : \E k \in 1..16 : HexDigits[k] = ds[i]

\* AccountAddress.from(<string>): the long form parses to its address, anything
\* that is not hexadecimal throws
AddressFromString(s) ==
    IF Len(s) >= 3 /\ s[1] = "0x" /\ s[2] = "<zero padding>"
       /\ IsHexString(SubSeq(s, 3, Len(s)))
    THEN [ok |-> TRUE, address |-> HexValue(SubSeq(s, 3, Len(s)))]
    ELSE [ok |-> FALSE, address |-> 0]

\* AccountAddress.from(<Uint8Array>): exactly 32 bytes, or it throws
AddressFromBytes(arg) ==
    IF arg.length = 32 THEN [ok |-> TRUE, address |-> arg.value]
    ELSE [ok |-> FALSE, address |-> 0]

\* Deserializer.deserializeU64: reads 8 bytes little-endian, throws on a
\* shorter buffer.  The first 8 bytes of a 32-byte big-endian address with a
\* small value are zero.
deserializeU64(arg) ==
    IF arg.length < 8 THEN [ok |-> FALSE, value |-> 0]
    ELSE IF arg.length = 8 THEN [ok |-> TRUE, value |-> arg.value]
    ELSE [ok |-> TRUE, value |-> 0]

\* --------------------------------------------------------------------------
\* Values the requests are built from
\* --------------------------------------------------------------------------

Address == [asset |-> 161, otherAsset |-> 162, payTo |-> 177, otherPayTo |-> 178,
            sender |-> 300, specialSender |-> 10, one |-> 1, two |-> 2,
            feePayer |-> 254]

\* feePayerAccount.accountAddress
feePayerAccount == [accountAddress |-> Address.feePayer]

\* error.message / vm_status texts a collaborator may produce
Messages == {EmptyString, <<"SEQUENCE_NUMBER_TOO_OLD">>}
VmStatuses == {<<"MOVE_ABORT">>, <<"INSUFFICIENT_BALANCE">>}
Hashes == {<<"0xhash1">>, <<"0xhash2">>}

\* The fields in which a request may deviate from the baseline, and the
\* number of alternatives of each (code 0 is the baseline value)
Alternatives ==
    [body |-> 2, accepted |-> 1, accScheme |-> 1, accNetwork |-> 1,
     reqScheme |-> 1, reqNetwork |-> 1, payload |-> 1, transaction |-> 1,
     sender |-> 1, txPayload |-> 1, moduleAddress |-> 1, moduleName |-> 1,
     functionName |-> 1, typeArgs |-> 2, nargs |-> 2, arg0 |-> 2, arg1 |-> 2,
     arg2 |-> 3, reqAsset |-> 2, reqPayTo |-> 2, reqAmount |-> 3,
     sponsored |-> 2, auth |-> 2]

Fields == DOMAIN Alternatives

RECURSIVE FieldSets(_)
FieldSets(k) == IF k = 0 THEN {{}}
                ELSE LET P == FieldSets(k - 1)
                     IN  P \cup {s \cup {f} : s \in P, f \in Fields}

RequestsDeviatingIn(S) ==
    {[f \in Fields |-> IF f \in S THEN c[f] ELSE 0] :
        c \in {c \in [S -> 1..3] : \A f \in S : c[f] <= Alternatives[f]}}

Requests == UNION {RequestsDeviatingIn(S) : S \in FieldSets(MaxDeviations)}

Baseline == [f \in Fields |-> 0]

\* --------------------------------------------------------------------------
\* The request body: req.body.paymentPayload and req.body.paymentRequirements
\* --------------------------------------------------------------------------

Pick(code, values) == values[code + 1]

\* the argument list of the entry function, as EntryFunctionBytes
ArgumentBytes(r) ==
    LET a0 == Pick(r.arg0, <<[length |-> 32, value |-> Address.asset],
                             [length |-> 32, value |-> Address.otherAsset],
                             [length |-> 8, value |-> Address.asset]>>)
        a1 == Pick(r.arg1, <<[length |-> 32, value |-> Address.payTo],
                             [length |-> 32, value |-> Address.otherPayTo],
                             [length |-> 8, value |-> Address.payTo]>>)
        a2 == Pick(r.arg2, <<[length |-> 8, value |-> 100],
                             [length |-> 8, value |-> 10],
                             [length |-> 4, value |-> 100],
                             [length |-> 32, value |-> 100]>>)
        a3 == [length |-> 8, value |-> 0]
    IN  SubSeq(<<a0, a1, a2, a3>>, 1, Pick(r.nargs, <<3, 2, 4>>))

\* what the base64 text of paymentPayload.payload.transaction encodes
Envelope(r) ==
    [wellFormed |-> r.transaction = 0,
     sender |-> Pick(r.sender, <<Address.sender, Address.specialSender>>),
     payloadVariant |-> Pick(r.txPayload, <<"entryFunction", "script">>),
     module_address |-> Pick(r.moduleAddress, <<Address.one, Address.two>>),
     module_name |-> Pick(r.moduleName, <<"primary_fungible_store", "coin">>),
     function_name |-> Pick(r.functionName, <<"transfer", "transfer_coins">>),
     type_args |-> Pick(r.typeArgs, <<1, 0, 2>>),
     args |-> ArgumentBytes(r),
     authenticator |-> Pick(r.auth, <<"ed25519", "singleKey", "multiKey">>)]

\* req.body.paymentPayload (has* = FALSE: the property is undefined)
PayloadOf(r) ==
    [hasAccepted |-> r.accepted = 0,
     accepted |-> [scheme |-> Pick(r.accScheme, <<"exact", "upto">>),
                   network |-> Pick(r.accNetwork, <<"aptos:2", "aptos:1">>)],
     hasPayload |-> r.payload = 0,
     payload |-> [transaction |-> Envelope(r)]]

\* req.body.paymentRequirements
RequirementsOf(r) ==
    [scheme |-> Pick(r.reqScheme, <<"exact", "upto">>),
     network |-> Pick(r.reqNetwork, <<"aptos:2", "aptos:1">>),
     asset |-> Pick(r.reqAsset, <<toStringLong(Address.asset),
                                  toStringLong(Address.otherAsset),
                                  <<"not an address">> >>),
     payTo |-> Pick(r.reqPayTo, <<toStringLong(Address.payTo),
                                  toStringLong(Address.otherPayTo),
                                  <<"not an address">> >>),
     amount |-> Pick(r.reqAmount, <<<<"1", "0", "0">>, <<"0", "1", "0", "0">>,
                                    <<"1", "0">>, <<"0", "1", "0">> >>),
     sponsored |-> r.sponsored = 2,
     hasExtra |-> r.sponsored = 1,
     extra |-> [sponsored |-> r.sponsored = 1]]

hasPaymentPayload(r) == r.body # 1
hasPaymentRequirements(r) == r.body # 2

\* --------------------------------------------------------------------------
\* deserializeAptosPayment
\* --------------------------------------------------------------------------

NoEntryFunction == [module_address |-> 0, module_name |-> "", function_name |-> "",
                    type_args |-> 0, args |-> << >>]

NoTransaction == [rawTransaction |-> [sender |-> 0, payloadVariant |-> "",
                                      entryFunction |-> NoEntryFunction],
                  feePayerAddress |-> << >>]

\* ok = FALSE: Buffer.from / JSON.parse / SimpleTransaction.deserialize /
\* AccountAuthenticator.deserialize threw.  feePayerAddress << >> is undefined.
deserializeAptosPayment(transactionBase64) ==
    IF ~transactionBase64.wellFormed
    THEN [ok |-> FALSE,
          transaction |-> NoTransaction,
          senderAuthenticator |-> "",
          hasEntryFunction |-> FALSE,
          entryFunction |-> NoEntryFunction]
    ELSE LET payload ==
                 IF transactionBase64.payloadVariant = "entryFunction"
                 THEN [module_address |-> transactionBase64.module_address,
                       module_name |-> transactionBase64.module_name,
                       function_name |-> transactionBase64.function_name,
                       type_args |-> transactionBase64.type_args,
                       args |-> transactionBase64.args]
                 ELSE NoEntryFunction
         IN  [ok |-> TRUE,
              transaction |->
                  [rawTransaction |->
                       [sender |-> transactionBase64.sender,
                        payloadVariant |-> transactionBase64.payloadVariant,
                        entryFunction |-> payload],
                   feePayerAddress |-> << >>],
              senderAuthenticator |-> transactionBase64.authenticator,
              hasEntryFunction |-> transactionBase64.payloadVariant = "entryFunction",
              entryFunction |-> payload]

\* --------------------------------------------------------------------------
\* verifyPayment: the synchronous run from entry to the first await or return
\* --------------------------------------------------------------------------

NoResult == [returned |-> FALSE, isValid |-> FALSE, invalidReason |-> EmptyString,
             payer |-> EmptyString]

Invalid(reason, payer) ==
    [returned |-> TRUE, isValid |-> FALSE, invalidReason |-> reason, payer |-> payer]

Valid(payer) ==
    [returned |-> TRUE, isValid |-> TRUE, invalidReason |-> EmptyString, payer |-> payer]

\* the outer catch of verifyPayment
UnexpectedVerifyError == Invalid(<<"unexpected_verify_error">>, EmptyString)

\* decoded: whether deserializeAptosPayment was called on the way
Return(result) == [await |-> FALSE, result |-> result, publicKey |-> "",
                   senderAddress |-> EmptyString, decoded |-> FALSE]

\* the call aptos.transaction.simulate.simple({signerPublicKey, transaction})
AwaitSimulate(publicKey, senderAddress) ==
    [await |-> TRUE, result |-> NoResult, publicKey |-> publicKey,
     senderAddress |-> senderAddress, decoded |-> FALSE]

\* the public-key material handed to the simulation
signerPublicKey(senderAuthenticator) ==
    IF senderAuthenticator = "ed25519" THEN "public_key"
    ELSE IF senderAuthenticator = "singleKey" THEN "public_key"
    ELSE IF senderAuthenticator = "multiKey" THEN "public_keys"
    ELSE "undefined"

\* a variant that compares the amounts as numbers
amountMatches_Numeric(amountArg, paymentRequirements) ==
    deserializeU64(amountArg).value = parseInt10(paymentRequirements.amount)

\* the amount rule
amountMatches(amountArg, paymentRequirements) ==
    toString10(deserializeU64(amountArg).value) = paymentRequirements.amount

\* a variant that simulates without the amount rule
verifyArguments_NoAmountRule(d, senderAddress, paymentRequirements) ==
    LET args == d.entryFunction.args
        faAddress == AddressFromBytes(args[1])
        expectedAsset == AddressFromString(paymentRequirements.asset)
        recipientAddress == AddressFromBytes(args[2])
        expectedPayTo == AddressFromString(paymentRequirements.payTo)
    IN  IF ~faAddress.ok \/ ~expectedAsset.ok THEN Return(UnexpectedVerifyError)
        ELSE IF faAddress.address # expectedAsset.address
        THEN Return(Invalid(<<"invalid_payment_asset_mismatch">>, senderAddress))
        ELSE IF ~recipientAddress.ok \/ ~expectedPayTo.ok THEN Return(UnexpectedVerifyError)
        ELSE IF recipientAddress.address # expectedPayTo.address
        THEN Return(Invalid(<<"invalid_payment_recipient_mismatch">>, senderAddress))
        ELSE AwaitSimulate(signerPublicKey(d.senderAuthenticator), senderAddress)

\* the asset, recipient and amount rules, then the simulation
verifyArguments(d, senderAddress, paymentRequirements) ==
    LET args == d.entryFunction.args
        faAddress == AddressFromBytes(args[1])
        expectedAsset == AddressFromString(paymentRequirements.asset)
        recipientAddress == AddressFromBytes(args[2])
        expectedPayTo == AddressFromString(paymentRequirements.payTo)
    IN  IF ~faAddress.ok \/ ~expectedAsset.ok THEN Return(UnexpectedVerifyError)
        ELSE IF faAddress.address # expectedAsset.address
        THEN Return(Invalid(<<"invalid_payment_asset_mismatch">>, senderAddress))
        ELSE IF ~recipientAddress.ok \/ ~expectedPayTo.ok THEN Return(UnexpectedVerifyError)
        ELSE IF recipientAddress.address # expectedPayTo.address
        THEN Return(Invalid(<<"invalid_payment_recipient_mismatch">>, senderAddress))
        ELSE IF ~deserializeU64(args[3]).ok THEN Return(UnexpectedVerifyError)
        ELSE IF ~amountMatches(args[3], paymentRequirements)
        THEN Return(Invalid(<<"invalid_payment_amount_mismatch">>, senderAddress))
        ELSE AwaitSimulate(signerPublicKey(d.senderAuthenticator), senderAddress)

\* the entry-function rules
verifyEntryFunction(d, senderAddress, paymentRequirements) ==
    IF ~d.hasEntryFunction
    THEN Return(Invalid(<<"invalid_payment_missing_entry_function">>, senderAddress))
    ELSE IF d.entryFunction.module_address # Address.one
            \/ d.entryFunction.module_name # "primary_fungible_store"
            \/ d.entryFunction.function_name # "transfer"
    THEN Return(Invalid(<<"invalid_payment_wrong_function">>, senderAddress))
    ELSE IF d.entryFunction.type_args # 1
    THEN Return(Invalid(<<"invalid_payment_wrong_type_args">>, senderAddress))
    ELSE IF Len(d.entryFunction.args) # 3
    THEN Return(Invalid(<<"invalid_payment_wrong_args">>, senderAddress))
    ELSE verifyArguments(d, senderAddress, paymentRequirements)

\* the sender address verifyPayment reports
verifySenderAddress(transaction) == toString(transaction.rawTransaction.sender)

\* a variant that reports the sender of an envelope it could not decode
verifyTransaction_PartialIntent(paymentPayload, paymentRequirements) ==
    IF ~paymentPayload.hasPayload THEN Return(UnexpectedVerifyError)
    ELSE LET d == deserializeAptosPayment(paymentPayload.payload.transaction)
             out == IF ~d.ok
                    THEN Return(Invalid(<<"unexpected_verify_error">>,
                                        toString(paymentPayload.payload.transaction.sender)))
                    ELSE verifyEntryFunction(d, verifySenderAddress(d.transaction),
                                             paymentRequirements)
         IN  [out EXCEPT !.decoded = TRUE]

\* deserialize, then the rules on the decoded transaction
verifyTransaction(paymentPayload, paymentRequirements) ==
    IF ~paymentPayload.hasPayload THEN Return(UnexpectedVerifyError)
    ELSE LET d == deserializeAptosPayment(paymentPayload.payload.transaction)
             out == IF ~d.ok THEN Return(UnexpectedVerifyError)
                    ELSE verifyEntryFunction(d, verifySenderAddress(d.transaction),
                                             paymentRequirements)
         IN  [out EXCEPT !.decoded = TRUE]

\* a variant that checks the network before the scheme
verifyPayment_NetworkFirst(paymentPayload, paymentRequirements) ==
    IF ~paymentPayload.hasAccepted THEN Return(UnexpectedVerifyError)
    ELSE IF paymentPayload.accepted.network # paymentRequirements.network
    THEN Return(Invalid(<<"network_mismatch">>, EmptyString))
    ELSE IF paymentPayload.accepted.scheme # "exact" \/ paymentRequirements.scheme # "exact"
    THEN Return(Invalid(<<"unsupported_scheme">>, EmptyString))
    ELSE verifyTransaction(paymentPayload, paymentRequirements)

\* a variant that deserializes the transaction before the scheme and network rules
verifyPayment_DecodeFirst(paymentPayload, paymentRequirements) ==
    LET rest == verifyTransaction(paymentPayload, paymentRequirements)
    IN  IF ~paymentPayload.hasAccepted
        THEN [Return(UnexpectedVerifyError) EXCEPT !.decoded = rest.decoded]
        ELSE IF ~rest.await /\ rest.result = UnexpectedVerifyError THEN rest
        ELSE IF paymentPayload.accepted.scheme # "exact"
                \/ paymentRequirements.scheme # "exact"
        THEN [Return(Invalid(<<"unsupported_scheme">>, EmptyString))
                 EXCEPT !.decoded = rest.decoded]
        ELSE IF paymentPayload.accepted.network # paymentRequirements.network
        THEN [Return(Invalid(<<"network_mismatch">>, EmptyString))
                 EXCEPT !.decoded = rest.decoded]
        ELSE rest

\* the scheme and network rules, then the rest
verifyPayment(paymentPayload, paymentRequirements) ==
    IF ~paymentPayload.hasAccepted THEN Return(UnexpectedVerifyError)
    ELSE IF paymentPayload.accepted.scheme # "exact" \/ paymentRequirements.scheme # "exact"
    THEN Return(Invalid(<<"unsupported_scheme">>, EmptyString))
    ELSE IF paymentPayload.accepted.network # paymentRequirements.network
    THEN Return(Invalid(<<"network_mismatch">>, EmptyString))
    ELSE verifyTransaction(paymentPayload, paymentRequirements)

\* a variant that takes every answer of the simulation for a success
verifyAfterSimulate_IgnoresFailure(outcome, senderAddress) ==
    IF outcome.kind = "throw"
    THEN Invalid(<<"simulation_error: ">> \o outcome.text, senderAddress)
    ELSE Valid(senderAddress)

\* what verifyPayment returns once the simulation has answered
\* outcome.kind: "success" | "failure" (vm_status = text) | "throw" (message = text)
verifyAfterSimulate(outcome, senderAddress) ==
    IF outcome.kind = "throw"
    THEN Invalid(<<"simulation_error: ">> \o outcome.text, senderAddress)
    ELSE IF outcome.kind # "success"
    THEN Invalid(<<"simulation_failed: ">> \o outcome.text, senderAddress)
    ELSE Valid(senderAddress)

SimulateOutcomes ==
    {[kind |-> "success", text |-> EmptyString]}
    \cup {[kind |-> "failure", text |-> t] : t \in VmStatuses}
    \cup {[kind |-> "throw", text |-> t] : t \in Messages}

\* --------------------------------------------------------------------------
\* settlePayment
\* --------------------------------------------------------------------------

\* a || b on strings
OrElse(a, b) == IF a = EmptyString THEN b ELSE a

NoSettleResult == [state |-> "none", success |-> FALSE, transaction |-> EmptyString,
                   network |-> "", errorReason |-> EmptyString, payer |-> EmptyString]

\* settlePayment threw: the fault leaves the function
SettleThrown(message) ==
    [state |-> "thrown", success |-> FALSE, transaction |-> EmptyString,
     network |-> "", errorReason |-> message, payer |-> EmptyString]

SettleFailure(network, errorReason, payer) ==
    [state |-> "returned", success |-> FALSE, transaction |-> EmptyString,
     network |-> network, errorReason |-> errorReason, payer |-> payer]

SettleSuccess(hash, network, payer) ==
    [state |-> "returned", success |-> TRUE, transaction |-> hash,
     network |-> network, errorReason |-> EmptyString, payer |-> payer]

\* the return of the `if (!verifyResult.isValid)` branch; reading
\* paymentPayload.accepted.network throws when accepted is undefined
settleInvalid(paymentPayload, verifyResult) ==
    IF ~paymentPayload.hasAccepted
    THEN SettleThrown(<<"Cannot read properties of undefined (reading 'network')">>)
    ELSE SettleFailure(paymentPayload.accepted.network,
                       OrElse(verifyResult.invalidReason, <<"verification_failed">>),
                       OrElse(verifyResult.payer, EmptyString))

\* a variant that reports the bare message
settleCatch_BareMessage(paymentPayload, verifyResult, message) ==
    SettleFailure(paymentPayload.accepted.network, message,
                  OrElse(verifyResult.payer, EmptyString))

\* a variant that drops the payer
settleCatch_PayerEmpty(paymentPayload, verifyResult, message) ==
    SettleFailure(paymentPayload.accepted.network,
                  <<"transaction_failed: ">> \o message, EmptyString)

\* the catch block of settlePayment
settleCatch(paymentPayload, verifyResult, message) ==
    IF ~paymentPayload.hasAccepted
    THEN SettleThrown(<<"Cannot read properties of undefined (reading 'network')">>)
    ELSE SettleFailure(paymentPayload.accepted.network,
                       <<"transaction_failed: ">> \o message,
                       OrElse(verifyResult.payer, EmptyString))

\* const NETWORK = 'aptos:2'
NETWORK == "aptos:2"

\* a variant that reports the facilitator's configured network
settleConfirmed_ConfiguredNetwork(paymentPayload, pendingTxnHash, senderAddress) ==
    SettleSuccess(pendingTxnHash, NETWORK, senderAddress)

\* the return after waitForTransaction
settleConfirmed(paymentPayload, pendingTxnHash, senderAddress) ==
    SettleSuccess(pendingTxnHash, paymentPayload.accepted.network, senderAddress)

\* a variant that reads paymentRequirements.sponsored
isSponsored_TopLevel(paymentRequirements) == paymentRequirements.sponsored

\* paymentRequirements.extra?.sponsored === true
isSponsored(paymentRequirements) ==
    paymentRequirements.hasExtra /\ paymentRequirements.extra.sponsored

\* the sender address settlePayment reports on success
settleSenderAddress(transaction) == toStringLong(transaction.rawTransaction.sender)

\* a variant that also makes the fee payer the sender of the transaction
withFeePayer_AsSender(transaction) ==
    [transaction EXCEPT !.feePayerAddress = <<feePayerAccount.accountAddress>>,
                        !.rawTransaction.sender = feePayerAccount.accountAddress]

\* transaction.feePayerAddress = feePayerAccount.accountAddress
withFeePayer(transaction) ==
    [transaction EXCEPT !.feePayerAddress = <<feePayerAccount.accountAddress>>]

\* aptos.transaction.signAsFeePayer({signer: feePayerAccount, transaction})
signAsFeePayer(transaction) ==
    <<[signer |-> feePayerAccount.accountAddress, signed |-> transaction]>>

\* a variant that attaches the fee payer to every transaction it settles
settleTransaction_AlwaysFeePayer(transaction, paymentRequirements) ==
    withFeePayer(transaction)

\* the transaction settlePayment hands to submit, and the fee-payer
\* authenticator it hands along (<< >>: none)
settleTransaction(transaction, paymentRequirements) ==
    IF isSponsored(paymentRequirements) THEN withFeePayer(transaction) ELSE transaction

settleFeePayerAuthenticator(transaction, paymentRequirements) ==
    IF isSponsored(paymentRequirements)
    THEN signAsFeePayer(settleTransaction(transaction, paymentRequirements))
    ELSE << >>

\* --------------------------------------------------------------------------
\* Collaborator calls a request has made
\* --------------------------------------------------------------------------

\* a variant that keeps the decoded transaction in one module-level variable
bind_ModuleLevel(locals, c, value) == [d \in DOMAIN locals |-> value]

\* `const { transaction, senderAuthenticator } = ...`: a binding of the call
bind(locals, c, value) == [locals EXCEPT ![c] = value]

\* answer: "pending" until the collaborator answers; returned: the hash that
\* submit returned, the status text of a simulation, or the message of the
\* error a collaborator threw
Op(name, transaction, senderAuthenticator, feePayerAuthenticator, hash) ==
    [op |-> name, transaction |-> transaction,
     senderAuthenticator |-> senderAuthenticator,
     feePayerAuthenticator |-> feePayerAuthenticator, hash |-> hash,
     answer |-> "pending", returned |-> EmptyString]

\* the last call made has been answered
Answered(calls, answer, returned) ==
    [calls EXCEPT ![Len(calls)] = [@ EXCEPT !.answer = answer, !.returned = returned]]

\* --------------------------------------------------------------------------
\* State
\* --------------------------------------------------------------------------

VARIABLES
    pc,             \* where each request is: idle, verify, simulating, verified,
                    \* submitting, confirming, settled, done
    kind,           \* the route of each request: "verify" or "settle"
    request,        \* req.body of each request
    verifyResult,   \* what verifyPayment returned
    senderAddress,  \* verifyPayment's local senderAddress
    settleResult,   \* what settlePayment returned, or that it threw
    transaction,    \* settlePayment's local transaction
    pendingTxn,     \* settlePayment's local pendingTxn.hash
    ops,            \* the collaborator calls the request has made, in order
    decodes,        \* how many times the request has called deserializeAptosPayment
    response        \* the HTTP response sent

vars == <<pc, kind, request, verifyResult, senderAddress, settleResult,
          transaction, pendingTxn, ops, decodes, response>>

NoResponse == [status |-> 0, ok |-> FALSE, reason |-> EmptyString]

Init ==
    /\ pc = [c \in Calls |-> "idle"]
    /\ kind = [c \in Calls |-> "none"]
    /\ request = [c \in Calls |-> Baseline]
    /\ verifyResult = [c \in Calls |-> NoResult]
    /\ senderAddress = [c \in Calls |-> EmptyString]
    /\ settleResult = [c \in Calls |-> NoSettleResult]
    /\ transaction = [c \in Calls |-> NoTransaction]
    /\ pendingTxn = [c \in Calls |-> EmptyString]
    /\ ops = [c \in Calls |-> << >>]
    /\ decodes = [c \in Calls |-> 0]
    /\ response = [c \in Calls |-> NoResponse]

paymentPayload(c) == PayloadOf(request[c])
paymentRequirements(c) == RequirementsOf(request[c])

\* a variant that only looks for the payload
missingParameters_PayloadOnly(r) == ~hasPaymentPayload(r)

\* `if (!paymentPayload || !paymentRequirements)` of both route handlers
missingParameters(r) == ~hasPaymentPayload(r) \/ ~hasPaymentRequirements(r)

\* a variant that goes on after an invalid verification
settleStops_Never(result) == FALSE

\* `if (!verifyResult.isValid)` of settlePayment
settleStops(result) == ~result.isValid

\* --------------------------------------------------------------------------
\* Actions
\* --------------------------------------------------------------------------

\* app.post('/verify') / app.post('/settle') up to the call of verifyPayment or
\* settlePayment; requests arrive one at a time and take the first free slot
Receive(c) ==
    /\ \A d \in Calls : pc[d] = "idle" /\ c <= d
    /\ \E k \in {"verify", "settle"}, r \in Requests :
        /\ kind' = [kind EXCEPT ![c] = k]
        /\ request' = [request EXCEPT ![c] = r]
        /\ IF missingParameters(r)
           THEN /\ response' = [response EXCEPT ![c] =
                        [status |-> 400, ok |-> FALSE, reason |-> <<"missing_parameters">>]]
                /\ pc' = [pc EXCEPT ![c] = "done"]
           ELSE /\ response' = response
                /\ pc' = [pc EXCEPT ![c] = "verify"]
    /\ UNCHANGED <<verifyResult, senderAddress, settleResult, transaction, pendingTxn, ops,
                   decodes>>

\* a variant that answers from the verification of another call for the same
\* request when there is one
VerifyRules_Cached(c) ==
    /\ pc[c] = "verify"
    /\ \E pp \in {paymentPayload(c)}, pr \in {paymentRequirements(c)} :
       \E out \in {verifyPayment(pp, pr)} :
        LET cached == {d \in Calls \ {c} :
                          request[d] = request[c] /\ verifyResult[d].returned}
        IN  IF cached # {}
            THEN /\ \E d \in cached :
                        verifyResult' = [verifyResult EXCEPT ![c] = verifyResult[d]]
                 /\ pc' = [pc EXCEPT ![c] = "verified"]
                 /\ UNCHANGED <<ops, senderAddress, decodes>>
            ELSE /\ IF out.await
                    THEN LET d == deserializeAptosPayment(pp.payload.transaction)
                         IN  /\ ops' = [ops EXCEPT ![c] = Append(@,
                                     Op("simulate", d.transaction, out.publicKey, << >>,
                                        EmptyString))]
                             /\ senderAddress' =
                                    [senderAddress EXCEPT ![c] = out.senderAddress]
                             /\ pc' = [pc EXCEPT ![c] = "simulating"]
                             /\ UNCHANGED verifyResult
                    ELSE /\ verifyResult' = [verifyResult EXCEPT ![c] = out.result]
                         /\ pc' = [pc EXCEPT ![c] = "verified"]
                         /\ UNCHANGED <<ops, senderAddress>>
                 /\ decodes' = [decodes EXCEPT ![c] = IF out.decoded THEN @ + 1 ELSE @]
    /\ UNCHANGED <<kind, request, settleResult, transaction, pendingTxn, response>>

\* verifyPayment from its entry to its return or to the await of the simulation
\* (pp, pr, out: the arguments and the outcome of the one call)
VerifyRules(c) ==
    /\ pc[c] = "verify"
    /\ \E pp \in {paymentPayload(c)}, pr \in {paymentRequirements(c)} :
       \E out \in {verifyPayment(pp, pr)} :
        /\ IF out.await
           THEN LET d == deserializeAptosPayment(pp.payload.transaction)
                IN  /\ ops' = [ops EXCEPT ![c] = Append(@,
                            Op("simulate", d.transaction, out.publicKey, << >>,
                               EmptyString))]
                    /\ senderAddress' = [senderAddress EXCEPT ![c] = out.senderAddress]
                    /\ pc' = [pc EXCEPT ![c] = "simulating"]
                    /\ UNCHANGED verifyResult
           ELSE /\ verifyResult' = [verifyResult EXCEPT ![c] = out.result]
                /\ pc' = [pc EXCEPT ![c] = "verified"]
                /\ UNCHANGED <<ops, senderAddress>>
        /\ decodes' = [decodes EXCEPT ![c] = IF out.decoded THEN @ + 1 ELSE @]
    /\ UNCHANGED <<kind, request, settleResult, transaction, pendingTxn, response>>

\* the simulation answers: verifyPayment returns
SimulateReturns(c) ==
    /\ pc[c] = "simulating"
    /\ \E outcome \in SimulateOutcomes :
        /\ verifyResult' = [verifyResult EXCEPT ![c] =
                                verifyAfterSimulate(outcome, senderAddress[c])]
        /\ ops' = [ops EXCEPT ![c] = Answered(@, outcome.kind, outcome.text)]
    /\ pc' = [pc EXCEPT ![c] = "verified"]
    /\ UNCHANGED <<kind, request, senderAddress, settleResult, transaction, pendingTxn,
                   decodes, response>>

\* app.post('/verify'): res.json(result)
VerifyResponds(c) ==
    /\ pc[c] = "verified"
    /\ kind[c] = "verify"
    /\ response' = [response EXCEPT ![c] =
            [status |-> 200, ok |-> verifyResult[c].isValid,
             reason |-> verifyResult[c].invalidReason]]
    /\ pc' = [pc EXCEPT ![c] = "done"]
    /\ UNCHANGED <<kind, request, verifyResult, senderAddress, settleResult, transaction,
                   pendingTxn, ops, decodes>>

\* settlePayment from the return of verifyPayment to its own return or to the
\* await of submit; signAsFeePayer either signs or throws
SettleContinues(c) ==
    /\ pc[c] = "verified"
    /\ kind[c] = "settle"
    /\ LET pp == paymentPayload(c)
           pr == paymentRequirements(c)
           d == deserializeAptosPayment(pp.payload.transaction)
           Returns(result) ==
               /\ settleResult' = [settleResult EXCEPT ![c] = result]
               /\ pc' = [pc EXCEPT ![c] = "settled"]
       IN  IF settleStops(verifyResult[c])
           THEN /\ Returns(settleInvalid(pp, verifyResult[c]))
                /\ UNCHANGED <<transaction, ops, decodes>>
           ELSE IF ~pp.hasPayload
           THEN /\ Returns(settleCatch(pp, verifyResult[c], <<"cannot read transaction">>))
                /\ UNCHANGED <<transaction, ops, decodes>>
           ELSE IF ~d.ok
           THEN /\ Returns(settleCatch(pp, verifyResult[c], <<"cannot deserialize">>))
                /\ decodes' = [decodes EXCEPT ![c] = @ + 1]
                /\ UNCHANGED <<transaction, ops>>
           ELSE LET txn == settleTransaction(d.transaction, pr)
                    auth == settleFeePayerAuthenticator(d.transaction, pr)
                    signing(answer, returned) ==
                        IF auth = << >> THEN << >>
                        ELSE <<[Op("signAsFeePayer", txn, "", << >>, EmptyString)
                                   EXCEPT !.answer = answer, !.returned = returned]>>
                IN  /\ transaction' = bind(transaction, c, txn)
                    /\ decodes' = [decodes EXCEPT ![c] = @ + 1]
                    /\ \/ /\ ops' = [ops EXCEPT ![c] = @ \o signing("signed", EmptyString) \o
                                 <<Op("submit", txn, d.senderAuthenticator, auth,
                                      EmptyString)>>]
                          /\ pc' = [pc EXCEPT ![c] = "submitting"]
                          /\ UNCHANGED settleResult
                       \/ /\ auth # << >>
                          /\ \E m \in Messages :
                                /\ ops' = [ops EXCEPT ![c] = @ \o signing("throw", m)]
                                /\ Returns(settleCatch(pp, verifyResult[c], m))
    /\ UNCHANGED <<kind, request, verifyResult, senderAddress, pendingTxn, response>>

\* a variant that returns the success as soon as submit has answered
SubmitReturns_WithoutWaiting(c) ==
    /\ pc[c] = "submitting"
    /\ \/ \E h \in Hashes :
            /\ pendingTxn' = [pendingTxn EXCEPT ![c] = h]
            /\ ops' = [ops EXCEPT ![c] = Answered(@, "hash", h)]
            /\ settleResult' = [settleResult EXCEPT ![c] =
                    settleConfirmed(paymentPayload(c), h,
                                    settleSenderAddress(transaction[c]))]
       \/ \E m \in Messages :
            /\ settleResult' = [settleResult EXCEPT ![c] =
                    settleCatch(paymentPayload(c), verifyResult[c], m)]
            /\ ops' = [ops EXCEPT ![c] = Answered(@, "throw", m)]
            /\ UNCHANGED pendingTxn
    /\ pc' = [pc EXCEPT ![c] = "settled"]
    /\ UNCHANGED <<kind, request, verifyResult, senderAddress, transaction, decodes,
                   response>>

\* submit answers with a hash (waitForTransaction is then awaited) or rejects
SubmitReturns(c) ==
    /\ pc[c] = "submitting"
    /\ \/ \E h \in Hashes :
            /\ pendingTxn' = [pendingTxn EXCEPT ![c] = h]
            /\ ops' = [ops EXCEPT ![c] = Append(Answered(@, "hash", h),
                    Op("waitForTransaction", NoTransaction, "", << >>, h))]
            /\ pc' = [pc EXCEPT ![c] = "confirming"]
            /\ UNCHANGED settleResult
       \/ \E m \in Messages :
            /\ settleResult' = [settleResult EXCEPT ![c] =
                    settleCatch(paymentPayload(c), verifyResult[c], m)]
            /\ ops' = [ops EXCEPT ![c] = Answered(@, "throw", m)]
            /\ pc' = [pc EXCEPT ![c] = "settled"]
            /\ UNCHANGED pendingTxn
    /\ UNCHANGED <<kind, request, verifyResult, senderAddress, transaction, decodes,
                   response>>

\* waitForTransaction answers or fails (timeout, node failure)
WaitReturns(c) ==
    /\ pc[c] = "confirming"
    /\ \/ /\ settleResult' = [settleResult EXCEPT ![c] =
                   settleConfirmed(paymentPayload(c), pendingTxn[c],
                                   settleSenderAddress(transaction[c]))]
          /\ ops' = [ops EXCEPT ![c] = Answered(@, "confirmed", EmptyString)]
       \/ \E m \in Messages :
            /\ settleResult' = [settleResult EXCEPT ![c] =
                   settleCatch(paymentPayload(c), verifyResult[c], m)]
            /\ ops' = [ops EXCEPT ![c] = Answered(@, "throw", m)]
    /\ pc' = [pc EXCEPT ![c] = "settled"]
    /\ UNCHANGED <<kind, request, verifyResult, senderAddress, transaction, pendingTxn,
                   decodes, response>>

\* app.post('/settle'): res.json(result), or the handler's catch
SettleResponds(c) ==
    /\ pc[c] = "settled"
    /\ response' = [response EXCEPT ![c] =
            IF settleResult[c].state = "thrown"
            THEN [status |-> 500, ok |-> FALSE, reason |-> settleResult[c].errorReason]
            ELSE [status |-> 200, ok |-> settleResult[c].success,
                  reason |-> settleResult[c].errorReason]]
    /\ pc' = [pc EXCEPT ![c] = "done"]
    /\ UNCHANGED <<kind, request, verifyResult, senderAddress, settleResult, transaction,
                   pendingTxn, ops, decodes>>

\* the request is over: its locals are gone
Close(c) ==
    /\ pc[c] = "done"
    /\ pc' = [pc EXCEPT ![c] = "idle"]
    /\ kind' = [kind EXCEPT ![c] = "none"]
    /\ request' = [request EXCEPT ![c] = Baseline]
    /\ verifyResult' = [verifyResult EXCEPT ![c] = NoResult]
    /\ senderAddress' = [senderAddress EXCEPT ![c] = EmptyString]
    /\ settleResult' = [settleResult EXCEPT ![c] = NoSettleResult]
    /\ transaction' = [transaction EXCEPT ![c] = NoTransaction]
    /\ pendingTxn' = [pendingTxn EXCEPT ![c] = EmptyString]
    /\ ops' = [ops EXCEPT ![c] = << >>]
    /\ decodes' = [decodes EXCEPT ![c] = 0]
    /\ response' = [response EXCEPT ![c] = NoResponse]

Next ==
    \E c \in Calls :
        \/ Receive(c)
        \/ VerifyRules(c)
        \/ SimulateReturns(c)
        \/ VerifyResponds(c)
        \/ SettleContinues(c)
        \/ SubmitReturns(c)
        \/ WaitReturns(c)
        \/ SettleResponds(c)
        \/ Close(c)

Spec == Init /\ [][Next]_vars

\* --------------------------------------------------------------------------
\* Concurrent requests: the event loop interleaves the handlers at their awaits
\* --------------------------------------------------------------------------

\* the requests sent while other requests are in progress: the baseline
\* payment to verify or to settle, and the same payment to settle with
\* sponsorship asked for (verifyPayment does not read the sponsorship)
ConcurrentRequests ==
    {<<"verify", Baseline>>, <<"settle", Baseline>>,
     <<"settle", [Baseline EXCEPT !.sponsored = 1]>>}

\* app.post('/verify') / app.post('/settle') up to the call of verifyPayment or
\* settlePayment: a request arrives whenever a slot is free, whatever the other
\* requests are doing.  The concurrent specification follows the calls of
\* verifyPayment and settlePayment up to their return.
ReceiveConcurrently(c) ==
    /\ pc[c] = "idle"
    /\ \E call \in ConcurrentRequests :
        /\ kind' = [kind EXCEPT ![c] = call[1]]
        /\ request' = [request EXCEPT ![c] = call[2]]
        /\ pc' = [pc EXCEPT ![c] = "verify"]
    /\ UNCHANGED <<verifyResult, senderAddress, settleResult, transaction, pendingTxn, ops,
                   decodes, response>>

NextConcurrent ==
    \E c \in Calls :
        \/ ReceiveConcurrently(c)
        \/ VerifyRules(c)
        \/ SimulateReturns(c)
        \/ SettleContinues(c)
        \/ SubmitReturns(c)
        \/ WaitReturns(c)

ConcurrentSpec == Init /\ [][NextConcurrent]_vars

\* --------------------------------------------------------------------------
\* The rules of the verify chain, stated on the request itself
\* --------------------------------------------------------------------------

EnvelopeOf(r) == PayloadOf(r).payload.transaction

AddressValues == {Address[f] : f \in DOMAIN Address}

\* the string s is the long form of some address
DenotesAddress(s) == \E a \in AddressValues : s = toStringLong(a)

\* the decimal string s is canonical: no leading zero
IsCanonicalDecimal(s) == Len(s) = 1 \/ (Len(s) > 1 /\ s[1] # "0")

Decodable(r) == PayloadOf(r).hasPayload /\ EnvelopeOf(r).wellFormed

HasArgument(r, i) ==
    /\ Decodable(r)
    /\ EnvelopeOf(r).payloadVariant = "entryFunction"
    /\ Len(EnvelopeOf(r).args) >= i

\* rule k (1 scheme, 2 network, 3 decode, 4 entry function present, 5 function
\* identity, 6 type-argument count, 7 argument count, 8 asset, 9 recipient,
\* 10 amount) holds of request r
RulePasses(k, r) ==
    LET pp == PayloadOf(r)
        pr == RequirementsOf(r)
        e == EnvelopeOf(r)
    IN  CASE k = 1 -> pp.hasAccepted /\ pp.accepted.scheme = "exact" /\ pr.scheme = "exact"
          [] k = 2 -> pp.hasAccepted /\ pp.accepted.network = pr.network
          [] k = 3 -> Decodable(r)
          [] k = 4 -> Decodable(r) /\ e.payloadVariant = "entryFunction"
          [] k = 5 -> /\ Decodable(r) /\ e.payloadVariant = "entryFunction"
                      /\ e.module_address = 1
                      /\ e.module_name = "primary_fungible_store"
                      /\ e.function_name = "transfer"
          [] k = 6 -> Decodable(r) /\ e.payloadVariant = "entryFunction" /\ e.type_args = 1
          [] k = 7 -> Decodable(r) /\ e.payloadVariant = "entryFunction" /\ Len(e.args) = 3
          [] k = 8 -> /\ HasArgument(r, 1)
                      /\ e.args[1].length = 32
                      /\ pr.asset = toStringLong(e.args[1].value)
          [] k = 9 -> /\ HasArgument(r, 2)
                      /\ e.args[2].length = 32
                      /\ pr.payTo = toStringLong(e.args[2].value)
          [] k = 10 -> /\ HasArgument(r, 3)
                       /\ e.args[3].length >= 8
                       /\ IsCanonicalDecimal(pr.amount)
                       /\ parseInt10(pr.amount) =
                              (IF e.args[3].length = 8 THEN e.args[3].value ELSE 0)

\* evaluating rule k on request r raises a fault: a value it needs is missing
\* or cannot be decoded
RuleFaults(k, r) ==
    LET pp == PayloadOf(r)
        pr == RequirementsOf(r)
        e == EnvelopeOf(r)
    IN  CASE k \in {1, 2} -> ~pp.hasAccepted
          [] k = 3 -> ~Decodable(r)
          [] k = 8 -> HasArgument(r, 1) /\ (e.args[1].length # 32 \/ ~DenotesAddress(pr.asset))
          [] k = 9 -> HasArgument(r, 2) /\ (e.args[2].length # 32 \/ ~DenotesAddress(pr.payTo))
          [] k = 10 -> HasArgument(r, 3) /\ e.args[3].length < 8
          [] OTHER -> FALSE

RuleReason ==
    <<"unsupported_scheme", "network_mismatch", "unexpected_verify_error",
      "invalid_payment_missing_entry_function", "invalid_payment_wrong_function",
      "invalid_payment_wrong_type_args", "invalid_payment_wrong_args",
      "invalid_payment_asset_mismatch", "invalid_payment_recipient_mismatch",
      "invalid_payment_amount_mismatch">>

Rules == DOMAIN RuleReason

\* the reason rule k reports: its own, or the boundary's when evaluating it faults
ReasonOfRule(k, r) ==
    IF RuleFaults(k, r) THEN <<"unexpected_verify_error">> ELSE <<RuleReason[k]>>

ViolatedRules(r) == {k \in Rules : ~RulePasses(k, r)}

Earliest(ks) == CHOOSE k \in ks : \A j \in ks : k <= j

StructurallyValid(r) == ViolatedRules(r) = {}

\* the collaborator calls of request c with the given name
OpsNamed(c, name) == {i \in DOMAIN ops[c] : ops[c][i].op = name}

SimulationSucceeded(c) == \E i \in OpsNamed(c, "simulate") : ops[c][i].answer = "success"

Verified(c) == verifyResult[c].returned

\* --------------------------------------------------------------------------
\* Properties
\* --------------------------------------------------------------------------

\* C1: verifyPayment returns isValid:true only if rules 1 to 10 all hold of
\* the request and the simulation reported success; whenever one of them
\* fails the result is isValid:false.
C1_ValidOnlyIfRulesAndSimulation ==
    \A c \in Calls :
        Verified(c) =>
            LET passes == StructurallyValid(request[c]) /\ SimulationSucceeded(c)
            IN  /\ verifyResult[c].isValid => passes
                /\ ~passes => ~verifyResult[c].isValid

\* a verification that passed all rules and the simulation
C1_Witness ==
    \E c \in Calls :
        /\ Verified(c)
        /\ verifyResult[c].isValid
        /\ SimulationSucceeded(c)

ReachesAmountRule(r) ==
    /\ \A k \in 1..9 : RulePasses(k, r)
    /\ EnvelopeOf(r).args[3].length >= 8

DecodedAmount(r) ==
    IF EnvelopeOf(r).args[3].length = 8 THEN EnvelopeOf(r).args[3].value ELSE 0

\* C4: the amount rule passes exactly when requirements.amount is the canonical
\* base-10 string of the decoded u64; any other string that denotes the same
\* integer ("0100" for 100, "010" for 10) fails with
\* invalid_payment_amount_mismatch.
C4_AmountIsExactStringEquality ==
    \A c \in Calls :
        (Verified(c) /\ ReachesAmountRule(request[c])) =>
            LET amount == RequirementsOf(request[c]).amount
                mismatch == verifyResult[c].invalidReason =
                                <<"invalid_payment_amount_mismatch">>
            IN  /\ mismatch <=> ~(/\ parseInt10(amount) = DecodedAmount(request[c])
                                  /\ IsCanonicalDecimal(amount))
                /\ (DecodedAmount(request[c]) = 100 /\ amount = <<"1", "0", "0">>)
                       => ~mismatch
                /\ (DecodedAmount(request[c]) = 100 /\ amount = <<"0", "1", "0", "0">>)
                       => mismatch
                /\ (DecodedAmount(request[c]) = 10 /\ amount = <<"0", "1", "0">>)
                       => mismatch

\* the decoded value is 100 and the requirements say "0100": a mismatch
C4_Witness ==
    \E c \in Calls :
        /\ Verified(c)
        /\ ReachesAmountRule(request[c])
        /\ DecodedAmount(request[c]) = 100
        /\ RequirementsOf(request[c]).amount = <<"0", "1", "0", "0">>
        /\ verifyResult[c].invalidReason = <<"invalid_payment_amount_mismatch">>

\* C2: a settle call whose verification is invalid makes no co-sign, submit or
\* await-confirmation call and returns success:false with errorReason equal to
\* the invalidReason of its verification.
C2_InvalidSettleFailsWithSameReason ==
    \A c \in Calls :
        (kind[c] = "settle" /\ pc[c] \in {"settled", "done"}
            /\ Verified(c) /\ ~verifyResult[c].isValid) =>
            /\ \A i \in DOMAIN ops[c] : ops[c][i].op = "simulate"
            /\ settleResult[c].state = "returned"
            /\ ~settleResult[c].success
            /\ settleResult[c].errorReason = verifyResult[c].invalidReason

\* the submit call i of request c is as the flag `sponsored` asks: with the
\* operator as fee payer and a co-signature produced before it, or with neither
SubmissionAsFlagged(c, i, sponsored) ==
    LET submit == ops[c][i]
    IN  IF sponsored
        THEN /\ submit.transaction.feePayerAddress = <<feePayerAccount.accountAddress>>
             /\ submit.feePayerAuthenticator # << >>
             /\ \E j \in OpsNamed(c, "signAsFeePayer") :
                    /\ j < i
                    /\ ops[c][j].answer = "signed"
                    /\ submit.feePayerAuthenticator[1].signed = ops[c][j].transaction
                    /\ ops[c][j].transaction = submit.transaction
        ELSE /\ submit.transaction.feePayerAddress = << >>
             /\ submit.feePayerAuthenticator = << >>
             /\ OpsNamed(c, "signAsFeePayer") = {}

\* C5 as stated: the flag is the requirements' own field `sponsored`.
C5_SponsoredFieldDecidesCoSignature ==
    \A c \in Calls : \A i \in OpsNamed(c, "submit") :
        SubmissionAsFlagged(c, i, RequirementsOf(request[c]).sponsored)

\* C5: in a settle call that reaches submission, if the requirements carry
\* extra.sponsored === true the fee-payer address is set to the operator's and
\* a co-signature is produced before submit and handed to it; otherwise (also
\* with a top-level sponsored: true) no co-signature is produced, the
\* fee-payer address is not set and submit gets the sender's proof alone.
C5_ExtraSponsoredDecidesCoSignature ==
    \A c \in Calls : \A i \in OpsNamed(c, "submit") :
        /\ kind[c] = "settle"
        /\ ops[c][i].senderAuthenticator = EnvelopeOf(request[c]).authenticator
        /\ SubmissionAsFlagged(c, i, /\ RequirementsOf(request[c]).hasExtra
                                     /\ RequirementsOf(request[c]).extra.sponsored)

\* a sponsored settle has submitted with the co-signature
C5_Witness ==
    \E c \in Calls : \E i \in OpsNamed(c, "submit") :
        /\ RequirementsOf(request[c]).hasExtra
        /\ RequirementsOf(request[c]).extra.sponsored
        /\ ops[c][i].feePayerAuthenticator # << >>
        /\ ops[c][i].answer = "hash"

\* C6: success:true only if the verification of the call was valid, submit
\* returned a hash and waitForTransaction on that hash completed; transaction
\* is then that hash.  With success:false transaction is '' and errorReason is
\* not ''.
C6_SuccessOnlyAfterConfirmation ==
    \A c \in Calls :
        settleResult[c].state = "returned" =>
            /\ settleResult[c].success =>
                   /\ Verified(c) /\ verifyResult[c].isValid
                   /\ \E i \in OpsNamed(c, "submit") :
                          /\ ops[c][i].answer = "hash"
                          /\ ops[c][i].returned = settleResult[c].transaction
                          /\ \E j \in OpsNamed(c, "waitForTransaction") :
                                 /\ j > i
                                 /\ ops[c][j].hash = ops[c][i].returned
                                 /\ ops[c][j].answer = "confirmed"
            /\ ~settleResult[c].success =>
                   /\ settleResult[c].transaction = EmptyString
                   /\ settleResult[c].errorReason # EmptyString

\* a settle that failed after submit had returned a hash, with an empty message
C6_Witness ==
    \E c \in Calls :
        /\ settleResult[c].state = "returned"
        /\ ~settleResult[c].success
        /\ \E i \in OpsNamed(c, "submit") : ops[c][i].answer = "hash"
        /\ settleResult[c].errorReason = <<"transaction_failed: ">>

\* C7: a verify call makes no co-sign, submit or await-confirmation call; it
\* simulates at most once, and only when rules 1 to 10 all hold.
C7_VerifyOnlySimulates ==
    \A c \in Calls :
        kind[c] = "verify" =>
            /\ \A i \in DOMAIN ops[c] : ops[c][i].op = "simulate"
            /\ Len(ops[c]) <= 1
            /\ Len(ops[c]) = 1 => StructurallyValid(request[c])

\* a verify call that has simulated and answered
C7_Witness ==
    \E c \in Calls :
        /\ kind[c] = "verify"
        /\ pc[c] = "done"
        /\ Len(ops[c]) = 1

SchemeNotExact(r) ==
    \/ ~(PayloadOf(r).hasAccepted /\ PayloadOf(r).accepted.scheme = "exact")
    \/ RequirementsOf(r).scheme # "exact"

NetworkDiffers(r) ==
    ~(PayloadOf(r).hasAccepted /\ PayloadOf(r).accepted.network = RequirementsOf(r).network)

\* invalid with the given reason and an empty payer, nothing decoded or simulated
RejectedEarly(c, reason) ==
    /\ ~verifyResult[c].isValid
    /\ verifyResult[c].invalidReason = <<reason>>
    /\ verifyResult[c].payer = EmptyString
    /\ decodes[c] = 0
    /\ ops[c] = << >>

\* C8 as stated: every verification with a scheme that is not "exact" is
\* rejected as unsupported_scheme, every one with differing networks as
\* network_mismatch, with an empty payer and without decode or simulation.
C8_SchemeAndNetworkRejectedEarly ==
    \A c \in Calls :
        Verified(c) =>
            /\ SchemeNotExact(request[c]) => RejectedEarly(c, "unsupported_scheme")
            /\ (~SchemeNotExact(request[c]) /\ NetworkDiffers(request[c])) =>
                   RejectedEarly(c, "network_mismatch")

\* C8: for every verify call whose payload carries an accepted descriptor, a
\* scheme that is not "exact" yields unsupported_scheme and otherwise a
\* differing network yields network_mismatch, with an empty payer, whatever the
\* transaction field contains, and without decode or simulation; a payload
\* without the descriptor is rejected as unexpected_verify_error, likewise with
\* an empty payer and without decode or simulation.
C8_WithAcceptedDescriptorRejectedEarly ==
    \A c \in Calls :
        Verified(c) =>
            IF PayloadOf(request[c]).hasAccepted
            THEN /\ SchemeNotExact(request[c]) => RejectedEarly(c, "unsupported_scheme")
                 /\ (~SchemeNotExact(request[c]) /\ NetworkDiffers(request[c])) =>
                        RejectedEarly(c, "network_mismatch")
            ELSE RejectedEarly(c, "unexpected_verify_error")

\* the networks differ and the transaction field cannot be decoded
C8_Witness ==
    \E c \in Calls :
        /\ Verified(c)
        /\ PayloadOf(request[c]).hasAccepted
        /\ NetworkDiffers(request[c])
        /\ ~EnvelopeOf(request[c]).wellFormed
        /\ verifyResult[c].invalidReason = <<"network_mismatch">>

\* C9: once the envelope is decoded, every invalid result carries the sender
\* address, not '', as payer.
C9_PayerKnownOnceDecoded ==
    \A c \in Calls :
        (Verified(c) /\ ~verifyResult[c].isValid
            /\ \A k \in 1..3 : RulePasses(k, request[c])) =>
            /\ verifyResult[c].payer # EmptyString
            /\ verifyResult[c].payer = toString(EnvelopeOf(request[c]).sender)

\* C10: verifyPayment returns a result and settlePayment returns a result;
\* neither throws.
C10_NoFaultLeavesTheCall ==
    \A c \in Calls :
        /\ pc[c] = "verified" => verifyResult[c].returned
        /\ pc[c] = "settled" => settleResult[c].state = "returned"

\* C11: when the scheme and network rules pass and the envelope cannot be
\* decoded, verifyPayment returns isValid:false with the generic reason
\* unexpected_verify_error and an empty payer, and makes no collaborator call.
C11_DecodeFailureRejectedWithoutIntent ==
    \A c \in Calls :
        (Verified(c) /\ RulePasses(1, request[c]) /\ RulePasses(2, request[c])
            /\ ~Decodable(request[c])) =>
            /\ ~verifyResult[c].isValid
            /\ verifyResult[c].invalidReason = <<"unexpected_verify_error">>
            /\ verifyResult[c].payer = EmptyString
            /\ ops[c] = << >>
            /\ decodes[c] <= 1

\* an envelope that is not well formed has been handed to the decoder
C11_Witness ==
    \E c \in Calls :
        /\ Verified(c)
        /\ RulePasses(1, request[c]) /\ RulePasses(2, request[c])
        /\ PayloadOf(request[c]).hasPayload
        /\ ~EnvelopeOf(request[c]).wellFormed
        /\ decodes[c] = 1
        /\ ~verifyResult[c].isValid

\* the call of settlePayment in slot c is over (returned or threw)
SettleOver(c) == kind[c] = "settle" /\ pc[c] \in {"settled", "done"}

\* the collaborator calls of slot c that threw
Thrown(c) == {i \in DOMAIN ops[c] : ops[c][i].answer = "throw"}

\* C12: when verification was valid and co-signing, submission or the wait
\* for confirmation throws, settlePayment returns success:false with
\* errorReason "transaction_failed: <message>", an empty transaction hash
\* (even if submit had returned one) and the payer verification reported.
C12_FailureAfterVerificationIsTransactionFailed ==
    \A c \in Calls :
        (SettleOver(c) /\ verifyResult[c].isValid /\ Thrown(c) # {}) =>
            \A i \in Thrown(c) :
                /\ ops[c][i].op \in {"signAsFeePayer", "submit", "waitForTransaction"}
                /\ settleResult[c].state = "returned"
                /\ ~settleResult[c].success
                /\ settleResult[c].errorReason =
                       <<"transaction_failed: ">> \o ops[c][i].returned
                /\ settleResult[c].transaction = EmptyString
                /\ settleResult[c].payer = verifyResult[c].payer

\* submit had returned a hash and the wait for confirmation threw a message
C12_Witness ==
    \E c \in Calls :
        /\ SettleOver(c) /\ verifyResult[c].isValid
        /\ pendingTxn[c] # EmptyString
        /\ verifyResult[c].payer # EmptyString
        /\ \E i \in Thrown(c) :
              ops[c][i].op = "waitForTransaction" /\ ops[c][i].returned # EmptyString

\* C13: every settle result with success:true carries the network of the
\* payment requirements.
C13_SuccessCarriesRequirementsNetwork ==
    \A c \in Calls :
        (kind[c] = "settle" /\ settleResult[c].state = "returned"
            /\ settleResult[c].success) =>
            settleResult[c].network = paymentRequirements(c).network

\* a settlement on a network other than the configured one has succeeded
C13_Witness ==
    \E c \in Calls :
        /\ kind[c] = "settle" /\ settleResult[c].success
        /\ OpsNamed(c, "waitForTransaction") # {}
        /\ paymentRequirements(c).network # NETWORK

\* C14: a verify or settle request that lacks paymentPayload or
\* paymentRequirements is answered with "missing_parameters" (isValid:false or
\* success:false) before the pipeline runs: no decode, simulation, co-sign,
\* submit or wait for confirmation is performed for it.
C14_MissingParametersAnsweredBeforePipeline ==
    \A c \in Calls :
        (pc[c] # "idle" /\ (~hasPaymentPayload(request[c])
                             \/ ~hasPaymentRequirements(request[c]))) =>
            /\ pc[c] = "done"
            /\ response[c] = [status |-> 400, ok |-> FALSE,
                              reason |-> <<"missing_parameters">>]
            /\ ops[c] = << >>
            /\ decodes[c] = 0
            /\ verifyResult[c] = NoResult
            /\ settleResult[c] = NoSettleResult
            /\ transaction[c] = NoTransaction

\* a settle request without paymentRequirements has been answered
C14_Witness ==
    \E c \in Calls :
        /\ kind[c] = "settle"
        /\ hasPaymentPayload(request[c]) /\ ~hasPaymentRequirements(request[c])
        /\ response[c].reason = <<"missing_parameters">>

\* the requirements of slot c ask for sponsorship (extra.sponsored, see C5)
SponsoredRequest(c) ==
    paymentRequirements(c).hasExtra /\ paymentRequirements(c).extra.sponsored

\* where slot c holds a transaction with a fee-payer address, the call is a
\* settle call whose verification was valid and whose requirements are
\* sponsored; in every other respect the transaction is as it was decoded
FeePayerOnlyOnSponsoredSettle ==
    \A c \in Calls :
        LET decoded == deserializeAptosPayment(paymentPayload(c).payload.transaction)
            Mutated(t) == t.feePayerAddress # << >>
            AsDecoded(t) == t.rawTransaction = decoded.transaction.rawTransaction
        IN  /\ \A i \in DOMAIN ops[c] :
                   /\ ops[c][i].op = "simulate" => ~Mutated(ops[c][i].transaction)
                   /\ Mutated(ops[c][i].transaction) =>
                          /\ kind[c] = "settle" /\ verifyResult[c].isValid
                          /\ SponsoredRequest(c)
                          /\ ops[c][i].transaction.feePayerAddress =
                                 <<feePayerAccount.accountAddress>>
                   /\ ops[c][i].op \in {"simulate", "signAsFeePayer", "submit"} =>
                          AsDecoded(ops[c][i].transaction)
            /\ Mutated(transaction[c]) =>
                   /\ kind[c] = "settle" /\ verifyResult[c].isValid
                   /\ SponsoredRequest(c)
            /\ (kind[c] = "settle" /\ OpsNamed(c, "submit") # {}
                    /\ ~SponsoredRequest(c)) =>
                   transaction[c] = decoded.transaction

\* a request in progress keeps the payload and requirements it arrived with
RequestKept ==
    \A c \in Calls : pc[c] \notin {"idle", "done"} => request'[c] = request[c]

\* C15: neither verify nor settle changes the supplied requirements or
\* payload; the only mutation is the fee-payer address set on the transaction
\* decoded inside a settle call, and only when verification was valid and the
\* requirements are sponsored.  A verify call and a non-sponsored settle call
\* leave the decoded transaction's fee-payer field unchanged.
C15_OnlyMutationIsFeePayerOnSponsoredSettle ==
    [] FeePayerOnlyOnSponsoredSettle /\ [][RequestKept]_vars

\* a sponsored settle call has attached the fee payer to its transaction
C15_Witness ==
    \E c \in Calls :
        /\ kind[c] = "settle" /\ SponsoredRequest(c)
        /\ transaction[c].feePayerAddress = <<feePayerAccount.accountAddress>>
        /\ \E i \in OpsNamed(c, "simulate") :
              ops[c][i].transaction.feePayerAddress = << >>
        /\ OpsNamed(c, "submit") # {}

\* the collaborator calls of slot c that failed
Failed(c) == {i \in DOMAIN ops[c] : ops[c][i].answer \in {"failure", "throw"}}

OpNames == {"simulate", "signAsFeePayer", "submit", "waitForTransaction"}

\* C16: no operation is retried: within one call simulate, co-sign, submit and
\* the wait for confirmation are each invoked at most once (a verify call
\* invokes only simulate), and the first failure of any of them ends the call
\* with a terminal failure result.
C16_NoRetries ==
    \A c \in Calls :
        /\ \A name \in OpNames : Cardinality(OpsNamed(c, name)) <= 1
        /\ kind[c] = "verify" => \A i \in DOMAIN ops[c] : ops[c][i].op = "simulate"
        /\ \A i \in Failed(c) :
              /\ i = Len(ops[c])
              /\ pc[c] \in {"verified", "settled", "done"}
              /\ verifyResult[c].returned
              /\ ops[c][i].op = "simulate" => ~verifyResult[c].isValid
              /\ (kind[c] = "settle" /\ pc[c] \in {"settled", "done"}) =>
                     /\ settleResult[c].state = "returned"
                     /\ ~settleResult[c].success
              /\ (kind[c] = "verify" /\ pc[c] = "done") => ~response[c].ok

\* a settle call has ended after its submission was rejected
C16_Witness ==
    \E c \in Calls :
        /\ SettleOver(c)
        /\ SimulationSucceeded(c)
        /\ \E i \in Failed(c) : ops[c][i].op = "submit"
        /\ ~settleResult[c].success

\* the steps a call may take: Init, Verifying (verify, simulating), Invalid or
\* Verified (verified), Signing and Submitting (submitting), Confirming,
\* Confirmed or Failed (settled), and the answer of the route (done)
SettleOrder ==
    {<<"idle", "verify">>, <<"idle", "done">>, <<"verify", "simulating">>,
     <<"verify", "verified">>, <<"simulating", "verified">>,
     <<"verified", "settled">>, <<"verified", "submitting">>,
     <<"submitting", "confirming">>, <<"submitting", "settled">>,
     <<"confirming", "settled">>, <<"settled", "done">>, <<"done", "idle">>}

\* every step of a settle call follows the order, leaves Verified for
\* Submitting only when the verification was valid, and leaves Confirming
\* only when waitForTransaction has answered
SettleStepsInOrder ==
    \A c \in Calls :
        (kind'[c] = "settle" /\ pc'[c] # pc[c] /\ pc[c] # "done") =>
            /\ <<pc[c], pc'[c]>> \in SettleOrder
            /\ pc'[c] = "submitting" => verifyResult[c].isValid
            /\ (pc[c] = "verified" /\ pc'[c] = "settled") =>
                   (~verifyResult[c].isValid \/ Thrown(c)' # {})
            /\ pc[c] = "confirming" =>
                   \E i \in OpsNamed(c, "waitForTransaction") :
                       ops[c][i].answer = "pending" /\ ops'[c][i].answer # "pending"

\* what the calls made so far say about the order
SettleCallsInOrder ==
    \A c \in Calls :
        /\ \A i \in OpsNamed(c, "submit") :
              /\ verifyResult[c].returned /\ verifyResult[c].isValid
              /\ SimulationSucceeded(c)
              /\ \A j \in OpsNamed(c, "simulate") \cup OpsNamed(c, "signAsFeePayer") : j < i
              /\ ops[c][i].answer = "hash" =>
                     \E j \in OpsNamed(c, "waitForTransaction") :
                         j = i + 1 /\ ops[c][j].hash = ops[c][i].returned
              /\ (ops[c][i].answer = "pending") = (pc[c] = "submitting")
        /\ \A j \in OpsNamed(c, "signAsFeePayer") :
              verifyResult[c].isValid /\ SponsoredRequest(c)
        /\ \A j \in OpsNamed(c, "waitForTransaction") :
              /\ \E i \in OpsNamed(c, "submit") :
                     i < j /\ ops[c][i].answer = "hash"
              /\ (ops[c][j].answer = "pending") = (pc[c] = "confirming")
              /\ ops[c][j].answer = "pending" => settleResult[c].state = "none"

\* C17: a settle call moves through its states only in the order Init,
\* Verifying, Invalid or Verified, Signing (only when sponsored), Submitting,
\* Confirming, Confirmed or Failed: submit never happens before verification
\* completed as valid, the wait for confirmation never happens before submit
\* returned, and once submit has returned a hash the call always proceeds to
\* the wait for confirmation.
C17_SettleStatesInOrder ==
    [] SettleCallsInOrder /\ [][SettleStepsInOrder]_vars

\* a sponsored settle call has gone through every state up to Confirmed
C17_Witness ==
    \E c \in Calls :
        /\ kind[c] = "settle" /\ pc[c] = "settled" /\ settleResult[c].success
        /\ OpsNamed(c, "signAsFeePayer") # {}
        /\ \E j \in OpsNamed(c, "waitForTransaction") : ops[c][j].answer = "confirmed"

\* what the collaborators have answered to slot c, call by call
Responses(c) == [i \in DOMAIN ops[c] |-> <<ops[c][i].answer, ops[c][i].returned>>]

\* everything slot c holds besides its inputs
Progress(c) ==
    <<pc[c], verifyResult[c], senderAddress[c], settleResult[c], transaction[c],
      pendingTxn[c], ops[c], decodes[c]>>

\* slot c is suspended at an await of a collaborator
Suspended(c) == pc[c] \in {"simulating", "submitting", "confirming"}

\* two calls of the same kind with the same inputs that have received the same
\* answers and have both returned hold the same results
ResultsDependOnOwnInputs ==
    \A c, d \in Calls :
        (/\ kind[c] = kind[d] /\ request[c] = request[d]
         /\ Responses(c) = Responses(d)
         /\ pc[c] \in {"verified", "settled"} /\ pc[d] = pc[c]) =>
            Progress(c) = Progress(d)

\* a transaction carries the fee payer only in a call whose own requirements
\* are sponsored, whatever the other calls have done
FeePayerStaysInItsCall ==
    \A c \in Calls :
        /\ transaction[c].feePayerAddress # << >> =>
               kind[c] = "settle" /\ SponsoredRequest(c)
        /\ \A i \in DOMAIN ops[c] :
               ops[c][i].transaction.feePayerAddress # << >> =>
                   kind[c] = "settle" /\ SponsoredRequest(c)
        /\ (pc[c] \in {"submitting", "confirming", "settled"} /\ ~SponsoredRequest(c)
                /\ verifyResult[c].isValid) =>
               transaction[c] =
                   deserializeAptosPayment(paymentPayload(c).payload.transaction).transaction

\* while a call is suspended, every other call can take its next step
SuspendedCallDisablesNothing ==
    \A d \in Calls :
        (\E c \in Calls \ {d} : Suspended(c)) =>
            /\ pc[d] = "idle" => ENABLED ReceiveConcurrently(d)
            /\ pc[d] = "verify" => ENABLED VerifyRules(d)
            /\ pc[d] = "simulating" => ENABLED SimulateReturns(d)
            /\ (pc[d] = "verified" /\ kind[d] = "settle") => ENABLED SettleContinues(d)
            /\ pc[d] = "submitting" => ENABLED SubmitReturns(d)
            /\ pc[d] = "confirming" => ENABLED WaitReturns(d)

\* C18: concurrent verify and settle calls share no mutable state: under every
\* interleaving each call's result depends only on its own inputs and the
\* answers it received, the fee-payer address set by a sponsored settle call
\* never appears on the transaction of another call, and a call suspended in
\* simulation, submission or confirmation never disables the steps of another.
C18_ConcurrentCallsShareNoState ==
    /\ ResultsDependOnOwnInputs
    /\ FeePayerStaysInItsCall
    /\ SuspendedCallDisablesNothing

\* a sponsored settle call is suspended with the fee payer on its transaction
\* while a settle call without sponsorship has submitted its own
C18_Witness ==
    \E c, d \in Calls :
        /\ c # d /\ kind[c] = "settle" /\ kind[d] = "settle"
        /\ SponsoredRequest(c) /\ ~SponsoredRequest(d)
        /\ pc[c] = "confirming"
        /\ transaction[c].feePayerAddress = <<feePayerAccount.accountAddress>>
        /\ pc[d] = "settled" /\ settleResult[d].success
        /\ transaction[d].feePayerAddress = << >>

\* slot c has carried out its own verification: decoded the payload and, the
\* rules passing, asked for its own simulation
OwnVerification(c) ==
    /\ decodes[c] >= 1
    /\ OpsNamed(c, "simulate") = {} => ~StructurallyValid(request[c])
    /\ \A i \in OpsNamed(c, "simulate") :
           /\ i = 1
           /\ ops[c][i].answer # "pending"
           /\ verifyResult[c].isValid = (ops[c][i].answer = "success")

\* C19: there is no caching and no deduplication: settle calls for the same
\* valid payload, concurrent or one after the other, each perform their own
\* verification with their own simulation and each perform their own submit
\* (co-signing not having failed); no call is suppressed or answered from the
\* result of another.
C19_NoCachingNoDeduplication ==
    \A c \in Calls :
        /\ verifyResult[c].returned => OwnVerification(c)
        /\ (kind[c] = "settle" /\ pc[c] \in {"submitting", "confirming", "settled"}
                /\ verifyResult[c].isValid
                /\ \A i \in Thrown(c) : ops[c][i].op # "signAsFeePayer") =>
               \E i \in OpsNamed(c, "submit") :
                   /\ decodes[c] = 2
                   /\ ops[c][i].transaction.rawTransaction =
                          deserializeAptosPayment(
                              paymentPayload(c).payload.transaction).transaction.rawTransaction
                   /\ settleResult[c].success =>
                          settleResult[c].transaction = ops[c][i].returned

\* two settle calls for the same payload have both succeeded, each after its
\* own simulation and its own submission of the same transaction
C19_Witness ==
    \E c, d \in Calls :
        /\ c # d /\ kind[c] = "settle" /\ kind[d] = "settle"
        /\ request[c] = request[d]
        /\ settleResult[c].success /\ settleResult[d].success
        /\ settleResult[c].transaction # settleResult[d].transaction
        /\ SimulationSucceeded(c) /\ SimulationSucceeded(d)
        /\ \E i \in OpsNamed(c, "submit"), j \in OpsNamed(d, "submit") :
              ops[c][i].transaction = ops[d][j].transaction

\* the terminal states of a settle call
TerminalInvalid(c) ==
    /\ ~verifyResult[c].isValid
    /\ settleResult[c].state = "returned" /\ ~settleResult[c].success

TerminalConfirmed(c) ==
    /\ verifyResult[c].isValid
    /\ settleResult[c].state = "returned" /\ settleResult[c].success

TerminalFailed(c) ==
    /\ verifyResult[c].isValid
    /\ settleResult[c].state = "returned" /\ ~settleResult[c].success

\* the steps of a call in progress: the code between two awaits runs when
\* the event loop reaches it, and the collaborators answer or fail
Step(c) ==
    \/ VerifyRules(c)
    \/ SimulateReturns(c)
    \/ VerifyResponds(c)
    \/ SettleContinues(c)
    \/ SubmitReturns(c)
    \/ WaitReturns(c)
    \/ SettleResponds(c)

\* every collaborator call eventually returns or fails
FairSpec == Spec /\ \A c \in Calls : WF_vars(Step(c))

\* under FairSpec no call stays in Verifying, Signing, Submitting or
\* Confirming for ever: every call in progress comes to its end
EveryCallEnds ==
    \A c \in Calls : (pc[c] \in {"verify", "simulating", "verified", "submitting",
                                 "confirming", "settled"}) ~> (pc[c] = "done")

\* C20: every collaborator operation returning or failing, every settle call
\* ends in exactly one of the terminal states Invalid, Confirmed or Failed and
\* returns a result, and every verify call returns a VerifyResult.
C20_EveryCallEndsWithAResult ==
    \A c \in Calls :
        /\ (kind[c] = "verify" /\ pc[c] = "done" /\ response[c].status # 400) =>
               verifyResult[c].returned
        /\ (SettleOver(c) /\ response[c].status # 400) =>
               \/ TerminalInvalid(c)
               \/ TerminalConfirmed(c)
               \/ TerminalFailed(c)

\* the transfer the transaction t asks for is the one the requirements of
\* slot c describe
IntentAsRequired(t, c) ==
    LET f == t.rawTransaction.entryFunction
    IN  /\ t.rawTransaction.payloadVariant = "entryFunction"
        /\ f.module_address = Address.one
        /\ f.module_name = "primary_fungible_store"
        /\ f.function_name = "transfer"
        /\ Len(f.args) = 3
        /\ toStringLong(f.args[1].value) = paymentRequirements(c).asset
        /\ toStringLong(f.args[2].value) = paymentRequirements(c).payTo
        /\ f.args[3].length = 8
        /\ toString10(f.args[3].value) = paymentRequirements(c).amount

\* C21: the transaction a settle call submits is the one it verified: decoded
\* from the same, unchanged payload field, with the same sender, function
\* identity, asset, recipient, amount and sender authentication proof as the
\* transaction that passed the simulation of that call, and differing at most
\* in the fee-payer address set for sponsored requirements.
C21_SubmittedIsVerified ==
    \A c \in Calls :
        \A i \in OpsNamed(c, "submit") :
            \E j \in OpsNamed(c, "simulate") :
                /\ j < i /\ ops[c][j].answer = "success"
                /\ ops[c][i].transaction.rawTransaction =
                       ops[c][j].transaction.rawTransaction
                /\ signerPublicKey(ops[c][i].senderAuthenticator) =
                       ops[c][j].senderAuthenticator
                /\ ops[c][i].senderAuthenticator = EnvelopeOf(request[c]).authenticator
                /\ ops[c][i].transaction.rawTransaction.sender =
                       EnvelopeOf(request[c]).sender
                /\ IntentAsRequired(ops[c][i].transaction, c)
                /\ ops[c][i].transaction.feePayerAddress =
                       (IF SponsoredRequest(c)
                        THEN <<feePayerAccount.accountAddress>> ELSE << >>)
                /\ ops[c][j].transaction.feePayerAddress = << >>

\* a sponsored settle call has submitted a transaction that differs from the
\* simulated one in the fee payer, for a payload that is not the baseline
C21_Witness ==
    \E c \in Calls :
        /\ SponsoredRequest(c)
        /\ EnvelopeOf(request[c]).sender # EnvelopeOf(Baseline).sender
        /\ \E i \in OpsNamed(c, "submit"), j \in OpsNamed(c, "simulate") :
              /\ ops[c][i].transaction # ops[c][j].transaction
              /\ ops[c][i].answer = "hash"

\* C22: for every payload and every sender address, the payer of a successful
\* settle result is the string verifyPayment reported as payer for that
\* payload, which is also the payer a failed settle reports.
C22_SettlePayerIsVerifyPayer ==
    \A c \in Calls :
        (kind[c] = "settle" /\ settleResult[c].state = "returned"
            /\ verifyResult[c].isValid) =>
            settleResult[c].payer = verifyResult[c].payer

====
